---- MODULE Spec2Model ----
(***************************************************************************)
(* Windowed navigation controller of the display library:                  *)
(* LCDDisplayController<DisplayItem<std::string, uint8_t, 11, 3>> wrapped   *)
(* by LCDInventoryController, pushing its lines to an IRenderer that        *)
(* records them the way tests/MockRenderer.h does.                         *)
(*                                                                         *)
(* Text is a sequence of one-character strings.  size_t arithmetic is      *)
(* modular (SizeMod); uint8_t arithmetic is modulo 2^8.                    *)
(***************************************************************************)
EXTENDS Integers, Sequences, FiniteSets

VARIABLES
    renderer,           \* std::shared_ptr<IRenderer>: "mock", or "null" for nullptr
    config,             \* DisplayConfig: rows, columns, navigatorChar, separatorChar
    items,              \* std::vector<TDisplayItem>: sequence of [key, value]
    selectedItemIndex,  \* size_t, index into items
    windowStartIndex,   \* size_t, index of the first visible item
    isSelected,         \* bool, the armed flag
    lastRenderedLines,  \* MockRenderer: lines of the last push
    lastColumns,        \* MockRenderer: columns of the last push
    renderCallCount,    \* MockRenderer: pushes made by the latest call (reset before it)
    op,                 \* name of the latest public call
    ret,                \* its result: "true", "false", "void", "value", or the error
                        \* it raised: "out_of_range", "sink_error", "invalid_argument"
    repeated,           \* TRUE iff the call before the latest one was the same operation
    data,               \* <<v>>: the value the latest call stored or returned, else <<>>
    edits,              \* number of value writes done so far (bounded by MaxEdits)
    argText,            \* DisplayItem::formatToWidth: its argument text
    argWidth,           \* DisplayItem::formatToWidth: its argument width
    argNumber,          \* DisplayItem::toString: its argument, an 8-bit integer
    ch,                 \* host: the character the input listener read last
    command,            \* host: the NavigationCommand of the current iteration
    pc,                 \* host: "none" (no host), "loop" (in while (true)), "exited";
                        \* in a test, the step the test has reached
    calls,              \* test loop: navigateDown calls made in a row since construction
    saved,              \* test: what the test noted down before each of its calls
    navigatorRow        \* size_t, the cursor row of the controller without scrolling

vars == <<renderer, config, items, selectedItemIndex, windowStartIndex, isSelected,
          lastRenderedLines, lastColumns, renderCallCount, op, ret, repeated, data,
          edits, argText, argWidth, argNumber, ch, command, pc, calls, saved,
          navigatorRow>>

(* What lies outside the controller and its sink: the item under          *)
(* formatting and the host program                                        *)
outside == <<argText, argWidth, argNumber, ch, command, pc, calls, saved, navigatorRow>>

----------------------------------------------------------------------------
(* Bounds of the model *)

MaxLen == 3

MaxRows == 2

MaxEdits == 1

MaxText == 3

MaxWidth == 4

MaxCalls == 5

(* Program constants *)

KeyWidth == 11

ValueWidth == 3

SizeMod == 2^16

ValueMod == 2^8

NavigatorChars == {">", " "}

SeparatorChars == {":"}

ExtraColumns == {0, 1}

InitValues == {0, 255}

SetValues == {7, 255}

----------------------------------------------------------------------------
(* size_t and uint8_t arithmetic *)

SizeAdd(a, b) == (a + b) % SizeMod

SizeSub(a, b) == (a + SizeMod - b) % SizeMod

(* Mutant: addition that saturates at the type maximum *)
ValueAdd_saturating(v, d) == IF v + d >= ValueMod THEN ValueMod - 1 ELSE v + d

ValueAdd(v, d) == (v + d) % ValueMod

(* Mutant: subtraction that adds *)
ValueSub_adds(v, d) == (v + d) % ValueMod

ValueSub(v, d) == (v + ValueMod - d) % ValueMod

----------------------------------------------------------------------------
(* DisplayItem: text conversion and fixed-width formatting *)

Spaces(n) == [i \in 1..n |-> " "]

Digit(d) == <<"0", "1", "2", "3", "4", "5", "6", "7", "8", "9">>[d + 1]

(* Mutant: the generic template, which streams an 8-bit integer as the    *)
(* character with that code ("?" stands for any character but a digit)    *)
toString_asCharacter(n) ==
    IF n \in 48..57 THEN <<Digit(n - 48)>> ELSE <<"?">>

RECURSIVE toString(_)
toString(n) ==
    IF n < 10 THEN <<Digit(n)>>
    ELSE toString(n \div 10) \o <<Digit(n % 10)>>

(* toString(const int8_t&): the numeral of static_cast<int>(data) *)
toStringInt8(n) == IF n < 0 THEN <<"-">> \o toString(0 - n) ELSE toString(n)

(* Mutant: the spaces are put before the text *)
formatToWidth_padsLeft(text, width) ==
    IF Len(text) < width THEN Spaces(width - Len(text)) \o text
    ELSE IF Len(text) > width THEN SubSeq(text, 1, width)
    ELSE text

(* Mutant: a text longer than the width is returned whole *)
formatToWidth_noTruncate(text, width) ==
    IF Len(text) < width THEN text \o Spaces(width - Len(text))
    ELSE text

formatToWidth(text, width) ==
    IF Len(text) < width THEN text \o Spaces(width - Len(text))
    ELSE IF Len(text) > width THEN SubSeq(text, 1, width)
    ELSE text

getFormattedKey(item) == formatToWidth(item.key, KeyWidth)

getFormattedValue(item) == formatToWidth(toString(item.value), ValueWidth)

----------------------------------------------------------------------------
(* Construction *)

(* The controller is driven directly, as the unit tests do: no host loop, *)
(* no item being formatted on its own                                     *)
NoHost ==
    /\ argText = <<>>
    /\ argWidth = 0
    /\ argNumber = 0
    /\ ch = " "
    /\ command = "None"
    /\ pc = "none"
    /\ calls = 0
    /\ saved = <<>>
    /\ navigatorRow = 0

requiredWidth == 1 + KeyWidth + 1 + ValueWidth

createItems(n, v) ==
    [i \in 1..n |-> [key |-> <<"I", "t", "e", "m">> \o toString(i), value |-> v]]

Configs ==
    [rows : 0..MaxRows,
     columns : {requiredWidth - 1} \cup {requiredWidth + x : x \in ExtraColumns},
     navigatorChar : NavigatorChars,
     separatorChar : SeparatorChars]

(* Mutant: a display exactly as wide as a row is rejected *)
ConstructorAccepts_exactWidthRejected(rend, cfg) ==
    /\ rend # "null"
    /\ ~(cfg.columns <= requiredWidth)

ConstructorAccepts(rend, cfg) ==
    /\ rend # "null"
    /\ ~(cfg.columns < requiredWidth)

Init ==
    /\ renderer = "mock"
    /\ config \in {c \in Configs : ConstructorAccepts(renderer, c)}
    /\ \E n \in 0..MaxLen, v \in InitValues : items = createItems(n, v)
    /\ selectedItemIndex = 0
    /\ windowStartIndex = 0
    /\ isSelected = FALSE
    /\ lastRenderedLines = <<>>
    /\ lastColumns = 0
    /\ renderCallCount = 0
    /\ op = "constructor"
    /\ ret = "void"
    /\ repeated = FALSE
    /\ data = <<>>
    /\ edits = 0
    /\ NoHost

----------------------------------------------------------------------------
(* LCDDisplayController: private helpers *)

getNavigatorRowInWindow(sel, ws) == SizeSub(sel, ws)

(* Mutant: the final pad to config.columns is missing *)
formatRow_noPad(rowIndex, its, sel, ws) ==
    LET itemIndex == SizeAdd(ws, rowIndex)
        first == IF rowIndex = getNavigatorRowInWindow(sel, ws)
                 THEN config.navigatorChar ELSE " "
        rest == IF itemIndex < Len(its)
                THEN getFormattedKey(its[itemIndex + 1])
                     \o <<config.separatorChar>>
                     \o getFormattedValue(its[itemIndex + 1])
                ELSE Spaces(IF config.columns > 1 THEN config.columns - 1 ELSE 0)
        line == <<first>> \o rest
    IN  IF Len(line) > config.columns
        THEN SubSeq(line, 1, config.columns)
        ELSE line

(* Mutant: rows are not offset by the window (row r shows record r, the  *)
(* cursor sits on row selectedItemIndex)                                 *)
formatRow_absoluteRow(rowIndex, its, sel, ws) ==
    LET itemIndex == rowIndex
        first == IF rowIndex = sel THEN config.navigatorChar ELSE " "
        rest == IF itemIndex < Len(its)
                THEN getFormattedKey(its[itemIndex + 1])
                     \o <<config.separatorChar>>
                     \o getFormattedValue(its[itemIndex + 1])
                ELSE Spaces(IF config.columns > 1 THEN config.columns - 1 ELSE 0)
        line == <<first>> \o rest
    IN  IF Len(line) < config.columns
        THEN line \o Spaces(config.columns - Len(line))
        ELSE IF Len(line) > config.columns
        THEN SubSeq(line, 1, config.columns)
        ELSE line

(* Mutant: the cursor cell shows '*' while a record is selected for editing *)
formatRow_armedMark(rowIndex, its, sel, ws) ==
    LET itemIndex == SizeAdd(ws, rowIndex)
        first == IF rowIndex = getNavigatorRowInWindow(sel, ws)
                 THEN (IF isSelected THEN "*" ELSE config.navigatorChar)
                 ELSE " "
        rest == IF itemIndex < Len(its)
                THEN getFormattedKey(its[itemIndex + 1])
                     \o <<config.separatorChar>>
                     \o getFormattedValue(its[itemIndex + 1])
                ELSE Spaces(IF config.columns > 1 THEN config.columns - 1 ELSE 0)
        line == <<first>> \o rest
    IN  IF Len(line) < config.columns
        THEN line \o Spaces(config.columns - Len(line))
        ELSE IF Len(line) > config.columns
        THEN SubSeq(line, 1, config.columns)
        ELSE line

formatRow(rowIndex, its, sel, ws) ==
    LET itemIndex == SizeAdd(ws, rowIndex)
        first == IF rowIndex = getNavigatorRowInWindow(sel, ws)
                 THEN config.navigatorChar ELSE " "
        rest == IF itemIndex < Len(its)
                THEN getFormattedKey(its[itemIndex + 1])
                     \o <<config.separatorChar>>
                     \o getFormattedValue(its[itemIndex + 1])
                ELSE Spaces(IF config.columns > 1 THEN config.columns - 1 ELSE 0)
        line == <<first>> \o rest
    IN  IF Len(line) < config.columns
        THEN line \o Spaces(config.columns - Len(line))
        ELSE IF Len(line) > config.columns
        THEN SubSeq(line, 1, config.columns)
        ELSE line

validateItemIndex(its, itemIndex) == ~(itemIndex >= Len(its))

(* Mutant: the scroll-down branch is missing *)
adjustWindow_noScrollDown(its, sel, ws) ==
    IF Len(its) = 0 THEN 0
    ELSE IF sel < ws THEN sel
    ELSE ws

(* Mutant: the scroll-up branch is missing *)
adjustWindow_noScrollUp(its, sel, ws) ==
    IF Len(its) = 0 THEN 0
    ELSE IF sel >= SizeAdd(ws, config.rows)
    THEN SizeAdd(SizeSub(sel, config.rows), 1)
    ELSE ws

(* Mutant: scrolling down puts the window one record too far *)
adjustWindow_offByOne(its, sel, ws) ==
    IF Len(its) = 0 THEN 0
    ELSE IF sel < ws THEN sel
    ELSE IF sel >= SizeAdd(ws, config.rows)
    THEN SizeAdd(SizeSub(sel, config.rows), 2)
    ELSE ws

(* Mutant: the viewport height is taken to be one row *)
adjustWindow_ignoresRows(its, sel, ws) ==
    IF Len(its) = 0 THEN 0
    ELSE IF sel < ws THEN sel
    ELSE IF sel >= SizeAdd(ws, 1)
    THEN SizeAdd(SizeSub(sel, 1), 1)
    ELSE ws

(* Mutant: scrolling down snaps the window top to the cursor *)
adjustWindow_snapTop(its, sel, ws) ==
    IF Len(its) = 0 THEN 0
    ELSE IF sel < ws THEN sel
    ELSE IF sel >= SizeAdd(ws, config.rows)
    THEN sel
    ELSE ws

adjustWindow(its, sel, ws) ==
    IF Len(its) = 0 THEN 0
    ELSE IF sel < ws THEN sel
    ELSE IF sel >= SizeAdd(ws, config.rows)
    THEN SizeAdd(SizeSub(sel, config.rows), 1)
    ELSE ws

(* The lines render() builds from a controller state *)
renderLines(its, sel, ws) == [i \in 1..config.rows |-> formatRow(i - 1, its, sel, ws)]

(* renderer->render(lines, config.columns) as MockRenderer records it *)
Push(lines) ==
    /\ lastRenderedLines' = lines
    /\ lastColumns' = config.columns
    /\ renderCallCount' = 1

NoPush ==
    /\ renderCallCount' = 0
    /\ UNCHANGED <<lastRenderedLines, lastColumns>>

CalledWith(name, result, d) ==
    /\ op' = name
    /\ ret' = result
    /\ repeated' = (op = name)
    /\ data' = d

Called(name, result) == CalledWith(name, result, <<>>)

----------------------------------------------------------------------------
(* LCDDisplayController: public operations *)

canScroll == Len(items) > config.rows

getNavigatorRow == getNavigatorRowInWindow(selectedItemIndex, windowStartIndex)

render ==
    /\ Push(renderLines(items, selectedItemIndex, windowStartIndex))
    /\ Called("render", "void")
    /\ UNCHANGED <<renderer, config, items, selectedItemIndex, windowStartIndex, isSelected, edits>>

(* Mutant: navigateUp moves from the first record too, 0 - 1 wraps *)
canNavigateUp_always(sel) == TRUE

(* The guard of navigateUp *)
canNavigateUp(sel) == sel > 0

(* Mutant: the last index is taken to be items.size() *)
canNavigateDown_offByOne(its, sel) == Len(its) # 0 /\ sel < Len(its)

(* Mutant: the emptiness test is missing, items.size() - 1 wraps *)
canNavigateDown_noEmptyTest(its, sel) == sel < SizeSub(Len(its), 1)

(* The guard of navigateDown *)
canNavigateDown(its, sel) == Len(its) # 0 /\ sel < SizeSub(Len(its), 1)

navigateUp ==
    /\ IF canNavigateUp(selectedItemIndex)
       THEN /\ selectedItemIndex' = SizeSub(selectedItemIndex, 1)
            /\ windowStartIndex' = adjustWindow(items, selectedItemIndex', windowStartIndex)
            /\ Push(renderLines(items, selectedItemIndex', windowStartIndex'))
            /\ Called("navigateUp", "true")
       ELSE /\ UNCHANGED <<selectedItemIndex, windowStartIndex>>
            /\ NoPush
            /\ Called("navigateUp", "false")
    /\ UNCHANGED <<renderer, config, items, isSelected, edits>>

navigateDown ==
    /\ IF canNavigateDown(items, selectedItemIndex)
       THEN /\ selectedItemIndex' = SizeAdd(selectedItemIndex, 1)
            /\ windowStartIndex' = adjustWindow(items, selectedItemIndex', windowStartIndex)
            /\ Push(renderLines(items, selectedItemIndex', windowStartIndex'))
            /\ Called("navigateDown", "true")
       ELSE /\ UNCHANGED <<selectedItemIndex, windowStartIndex>>
            /\ NoPush
            /\ Called("navigateDown", "false")
    /\ UNCHANGED <<renderer, config, items, isSelected, edits>>

(* Mutant: sets the flag and renders unconditionally *)
selectItem_always ==
    /\ isSelected' = TRUE
    /\ Push(renderLines(items, selectedItemIndex, windowStartIndex))
    /\ Called("selectItem", "true")
    /\ UNCHANGED <<renderer, config, items, selectedItemIndex, windowStartIndex, edits>>

selectItem ==
    /\ IF ~isSelected
       THEN /\ isSelected' = TRUE
            /\ Push(renderLines(items, selectedItemIndex, windowStartIndex))
            /\ Called("selectItem", "true")
       ELSE /\ UNCHANGED isSelected
            /\ NoPush
            /\ Called("selectItem", "false")
    /\ UNCHANGED <<renderer, config, items, selectedItemIndex, windowStartIndex, edits>>

(* Mutant: leaving edit mode also sends the cursor back to the first record *)
deselectItem_homes ==
    /\ IF isSelected
       THEN /\ isSelected' = FALSE
            /\ selectedItemIndex' = 0
            /\ windowStartIndex' = 0
            /\ Push(renderLines(items, 0, 0))
            /\ Called("deselectItem", "true")
       ELSE /\ UNCHANGED <<isSelected, selectedItemIndex, windowStartIndex>>
            /\ NoPush
            /\ Called("deselectItem", "false")
    /\ UNCHANGED <<renderer, config, items, edits>>

(* Mutant: clears the flag and renders unconditionally *)
deselectItem_always ==
    /\ isSelected' = FALSE
    /\ Push(renderLines(items, selectedItemIndex, windowStartIndex))
    /\ Called("deselectItem", "true")
    /\ UNCHANGED <<renderer, config, items, selectedItemIndex, windowStartIndex, edits>>

deselectItem ==
    /\ IF isSelected
       THEN /\ isSelected' = FALSE
            /\ Push(renderLines(items, selectedItemIndex, windowStartIndex))
            /\ Called("deselectItem", "true")
       ELSE /\ UNCHANGED isSelected
            /\ NoPush
            /\ Called("deselectItem", "false")
    /\ UNCHANGED <<renderer, config, items, selectedItemIndex, windowStartIndex, edits>>

(* Mutant: the value is written to the first visible record *)
setCurrentValueAs_windowIndex(name, newValue) ==
    /\ IF validateItemIndex(items, selectedItemIndex)
       THEN /\ items' = [items EXCEPT ![windowStartIndex + 1].value = newValue]
            /\ Push(renderLines(items', selectedItemIndex, windowStartIndex))
            /\ CalledWith(name, "void", <<newValue>>)
            /\ edits' = edits + 1
       ELSE /\ UNCHANGED <<items, edits>>
            /\ NoPush
            /\ Called(name, "out_of_range")
    /\ UNCHANGED <<renderer, config, selectedItemIndex, windowStartIndex, isSelected>>

(* Mutant: the lines are pushed before the new value is stored *)
setCurrentValueAs_pushBeforeStore(name, newValue) ==
    /\ IF validateItemIndex(items, selectedItemIndex)
       THEN /\ items' = [items EXCEPT ![selectedItemIndex + 1].value = newValue]
            /\ Push(renderLines(items, selectedItemIndex, windowStartIndex))
            /\ CalledWith(name, "void", <<newValue>>)
            /\ edits' = edits + 1
       ELSE /\ UNCHANGED <<items, edits>>
            /\ NoPush
            /\ Called(name, "out_of_range")
    /\ UNCHANGED <<renderer, config, selectedItemIndex, windowStartIndex, isSelected>>

(* Mutant: the lines are pushed before the index is validated *)
setCurrentValueAs_renderFirst(name, newValue) ==
    /\ IF validateItemIndex(items, selectedItemIndex)
       THEN /\ items' = [items EXCEPT ![selectedItemIndex + 1].value = newValue]
            /\ Push(renderLines(items', selectedItemIndex, windowStartIndex))
            /\ CalledWith(name, "void", <<newValue>>)
            /\ edits' = edits + 1
       ELSE /\ UNCHANGED <<items, edits>>
            /\ Push(renderLines(items, selectedItemIndex, windowStartIndex))
            /\ Called(name, "out_of_range")
    /\ UNCHANGED <<renderer, config, selectedItemIndex, windowStartIndex, isSelected>>

(* The body of setCurrentValue, shared with increment/decrement *)
setCurrentValueAs(name, newValue) ==
    /\ IF validateItemIndex(items, selectedItemIndex)
       THEN /\ items' = [items EXCEPT ![selectedItemIndex + 1].value = newValue]
            /\ Push(renderLines(items', selectedItemIndex, windowStartIndex))
            /\ CalledWith(name, "void", <<newValue>>)
            /\ edits' = edits + 1
       ELSE /\ UNCHANGED <<items, edits>>
            /\ NoPush
            /\ Called(name, "out_of_range")
    /\ UNCHANGED <<renderer, config, selectedItemIndex, windowStartIndex, isSelected>>

setCurrentValue ==
    /\ edits < MaxEdits
    /\ \E v \in SetValues : setCurrentValueAs("setCurrentValue", v)

(* getCurrentValue: the value at selectedItemIndex, or no value when it throws *)
getCurrentValue ==
    IF validateItemIndex(items, selectedItemIndex)
    THEN <<items[selectedItemIndex + 1].value>>
    ELSE <<>>

(* Mutant: the key of the first record is returned *)
getCurrentKey_firstRecord ==
    IF validateItemIndex(items, selectedItemIndex)
    THEN <<items[1].key>>
    ELSE <<>>

getCurrentKey ==
    IF validateItemIndex(items, selectedItemIndex)
    THEN <<items[selectedItemIndex + 1].key>>
    ELSE <<>>

(* A call of a const getter: its result is observed, nothing else changes *)
Query(name, result) ==
    /\ CalledWith(name, IF result = <<>> THEN "out_of_range" ELSE "value", result)
    /\ NoPush
    /\ UNCHANGED <<renderer, config, items, selectedItemIndex, windowStartIndex,
                   isSelected, edits>>

callGetCurrentValue == Query("getCurrentValue", getCurrentValue)

callGetCurrentKey == Query("getCurrentKey", getCurrentKey)

----------------------------------------------------------------------------
(* LCDInventoryController *)

(* incrementValue as the code has it, without the model's cap on writes *)
incrementValueBody ==
    IF getCurrentValue = <<>>
    THEN /\ NoPush
         /\ Called("incrementValue", "out_of_range")
         /\ UNCHANGED <<renderer, config, items, selectedItemIndex, windowStartIndex, isSelected, edits>>
    ELSE setCurrentValueAs("incrementValue", ValueAdd(getCurrentValue[1], 1))

incrementValue ==
    /\ edits < MaxEdits
    /\ incrementValueBody

(* decrementValue as the code has it, without the model's cap on writes *)
decrementValueBody ==
    IF getCurrentValue = <<>>
    THEN /\ NoPush
         /\ Called("decrementValue", "out_of_range")
         /\ UNCHANGED <<renderer, config, items, selectedItemIndex, windowStartIndex, isSelected, edits>>
    ELSE setCurrentValueAs("decrementValue", ValueSub(getCurrentValue[1], 1))

decrementValue ==
    /\ edits < MaxEdits
    /\ decrementValueBody

----------------------------------------------------------------------------

Next ==
    \/ render /\ UNCHANGED outside
    \/ navigateUp /\ UNCHANGED outside
    \/ navigateDown /\ UNCHANGED outside
    \/ selectItem /\ UNCHANGED outside
    \/ deselectItem /\ UNCHANGED outside
    \/ setCurrentValue /\ UNCHANGED outside
    \/ incrementValue /\ UNCHANGED outside
    \/ decrementValue /\ UNCHANGED outside
    \/ callGetCurrentValue /\ UNCHANGED outside
    \/ callGetCurrentKey /\ UNCHANGED outside

Spec == Init /\ [][Next]_vars

----------------------------------------------------------------------------
(* A line sink whose render may throw.  IRenderer::render is a pure       *)
(* virtual function without noexcept; the controller calls it last, after *)
(* its own state has been written, and catches nothing.                   *)

(* renderer->render(...) throws: the sink records nothing *)
PushThrows == NoPush

renderSinkFails ==
    /\ PushThrows
    /\ Called("render", "sink_error")
    /\ UNCHANGED <<renderer, config, items, selectedItemIndex, windowStartIndex, isSelected, edits>>

navigateUpSinkFails ==
    /\ canNavigateUp(selectedItemIndex)
    /\ selectedItemIndex' = SizeSub(selectedItemIndex, 1)
    /\ windowStartIndex' = adjustWindow(items, selectedItemIndex', windowStartIndex)
    /\ PushThrows
    /\ Called("navigateUp", "sink_error")
    /\ UNCHANGED <<renderer, config, items, isSelected, edits>>

navigateDownSinkFails ==
    /\ canNavigateDown(items, selectedItemIndex)
    /\ selectedItemIndex' = SizeAdd(selectedItemIndex, 1)
    /\ windowStartIndex' = adjustWindow(items, selectedItemIndex', windowStartIndex)
    /\ PushThrows
    /\ Called("navigateDown", "sink_error")
    /\ UNCHANGED <<renderer, config, items, isSelected, edits>>

selectItemSinkFails ==
    /\ ~isSelected
    /\ isSelected' = TRUE
    /\ PushThrows
    /\ Called("selectItem", "sink_error")
    /\ UNCHANGED <<renderer, config, items, selectedItemIndex, windowStartIndex, edits>>

deselectItemSinkFails ==
    /\ isSelected
    /\ isSelected' = FALSE
    /\ PushThrows
    /\ Called("deselectItem", "sink_error")
    /\ UNCHANGED <<renderer, config, items, selectedItemIndex, windowStartIndex, edits>>

setCurrentValueSinkFails ==
    /\ edits < MaxEdits
    /\ validateItemIndex(items, selectedItemIndex)
    /\ \E v \in SetValues :
           /\ items' = [items EXCEPT ![selectedItemIndex + 1].value = v]
           /\ CalledWith("setCurrentValue", "sink_error", <<v>>)
    /\ edits' = edits + 1
    /\ PushThrows
    /\ UNCHANGED <<renderer, config, selectedItemIndex, windowStartIndex, isSelected>>

NextSinkFail ==
    \/ Next
    \/ renderSinkFails /\ UNCHANGED outside
    \/ navigateUpSinkFails /\ UNCHANGED outside
    \/ navigateDownSinkFails /\ UNCHANGED outside
    \/ selectItemSinkFails /\ UNCHANGED outside
    \/ deselectItemSinkFails /\ UNCHANGED outside
    \/ setCurrentValueSinkFails /\ UNCHANGED outside

SpecSinkFail == Init /\ [][NextSinkFail]_vars

----------------------------------------------------------------------------
(* Construction as a step: the arguments are chosen first, then the       *)
(* constructor either initialises the members or throws.                  *)

(* Content of the members' storage before the constructor has run *)
Indeterminate == {0, 1}

InitCtor ==
    /\ renderer \in {"null", "mock"}
    /\ config \in Configs
    /\ \E n \in 0..MaxLen, v \in InitValues : items = createItems(n, v)
    /\ selectedItemIndex \in Indeterminate
    /\ windowStartIndex \in Indeterminate
    /\ isSelected \in BOOLEAN
    /\ lastRenderedLines = <<>>
    /\ lastColumns = 0
    /\ renderCallCount = 0
    /\ op = "new"
    /\ ret = "void"
    /\ repeated = FALSE
    /\ data = <<>>
    /\ edits = 0
    /\ NoHost

(* Mutant: the constructor draws the first frame *)
construct_renders ==
    /\ op = "new"
    /\ IF ConstructorAccepts(renderer, config)
       THEN /\ selectedItemIndex' = 0
            /\ windowStartIndex' = 0
            /\ isSelected' = FALSE
            /\ Push(renderLines(items, 0, 0))
            /\ Called("constructor", "void")
       ELSE /\ UNCHANGED <<selectedItemIndex, windowStartIndex, isSelected>>
            /\ NoPush
            /\ Called("constructor", "invalid_argument")
    /\ UNCHANGED <<renderer, config, items, edits>>

construct ==
    /\ op = "new"
    /\ IF ConstructorAccepts(renderer, config)
       THEN /\ selectedItemIndex' = 0
            /\ windowStartIndex' = 0
            /\ isSelected' = FALSE
            /\ NoPush
            /\ Called("constructor", "void")
       ELSE /\ UNCHANGED <<selectedItemIndex, windowStartIndex, isSelected>>
            /\ NoPush
            /\ Called("constructor", "invalid_argument")
    /\ UNCHANGED <<renderer, config, items, edits>>

(* The object exists: the constructor has returned without throwing *)
Constructed == op # "new" /\ ~(op = "constructor" /\ ret = "invalid_argument")

NextCtor ==
    \/ construct /\ UNCHANGED outside
    \/ Constructed /\ Next

SpecCtor == InitCtor /\ [][NextCtor]_vars

----------------------------------------------------------------------------
(* A test that constructs a controller and calls navigateDown k times in  *)
(* a row (ScrollingTests: NavigateDownToLastItemScrollsCorrectly).        *)

navigateDownAgain ==
    /\ calls < MaxCalls
    /\ navigateDown
    /\ calls' = calls + 1
    /\ UNCHANGED <<argText, argWidth, argNumber, ch, command, pc, saved, navigatorRow>>

NextDown == navigateDownAgain

SpecDown == Init /\ [][NextDown]_vars

----------------------------------------------------------------------------
(* Tests that compare the outcomes of two calls. A test notes down the    *)
(* controller's fields and the result of the latest call, makes a call,   *)
(* and compares.                                                          *)

(* What a test reads off the controller and the sink, with the call it    *)
(* is about to make (or has just made) and that call's argument           *)
Noted(name, arg) ==
    [name |-> name, arg |-> arg,
     items |-> items, sel |-> selectedItemIndex, ws |-> windowStartIndex,
     armed |-> isSelected, ret |-> ret, lines |-> lastRenderedLines,
     pushes |-> renderCallCount, edits |-> edits]

(* One public call, chosen by name *)
Call(name, arg) ==
    \/ name = "render" /\ render
    \/ name = "navigateUp" /\ navigateUp
    \/ name = "navigateDown" /\ navigateDown
    \/ name = "setCurrentValue" /\ edits < MaxEdits
                                /\ setCurrentValueAs("setCurrentValue", arg)
    \/ name = "incrementValue" /\ incrementValue
    \/ name = "decrementValue" /\ decrementValue

ArgsOf(name) == IF name = "setCurrentValue" THEN SetValues ELSE {0}

(* Two controllers in states that differ only in isSelected receive the   *)
(* same call. The test brings a controller to some state by navigation    *)
(* and select/deselect, makes the call, notes the outcome, then puts the  *)
(* fields back as they were except for the flag and makes the call again. *)
ArmedOps == {"render", "navigateUp", "navigateDown", "setCurrentValue",
             "incrementValue", "decrementValue"}

reach ==
    /\ pc = "none"
    /\ (navigateUp \/ navigateDown \/ selectItem \/ deselectItem)
    /\ UNCHANGED outside

firstCall ==
    /\ pc = "none"
    /\ \E name \in ArmedOps : \E arg \in ArgsOf(name) :
           /\ Call(name, arg)
           /\ saved' = <<Noted(name, arg)>>
    /\ pc' = "first"
    /\ UNCHANGED <<argText, argWidth, argNumber, ch, command, calls, navigatorRow>>

otherFlag ==
    /\ pc = "first"
    /\ saved' = Append(saved, Noted(op, data))
    /\ items' = saved[1].items
    /\ selectedItemIndex' = saved[1].sel
    /\ windowStartIndex' = saved[1].ws
    /\ isSelected' = ~saved[1].armed
    /\ edits' = saved[1].edits
    /\ pc' = "flipped"
    /\ UNCHANGED <<renderer, config, lastRenderedLines, lastColumns, renderCallCount,
                   op, ret, repeated, data>>
    /\ UNCHANGED <<argText, argWidth, argNumber, ch, command, calls, navigatorRow>>

secondCall ==
    /\ pc = "flipped"
    /\ Call(saved[1].name, saved[1].arg)
    /\ pc' = "second"
    /\ UNCHANGED <<argText, argWidth, argNumber, ch, command, calls, saved, navigatorRow>>

NextArmed == reach \/ firstCall \/ otherFlag \/ secondCall

SpecArmed == Init /\ [][NextArmed]_vars

(* A test that calls navigateDown and, immediately after it, navigateUp,  *)
(* from any state that navigation and select/deselect can reach           *)
downCall ==
    /\ pc = "none"
    /\ navigateDown
    /\ saved' = <<Noted("navigateDown", 0)>>
    /\ pc' = "down"
    /\ UNCHANGED <<argText, argWidth, argNumber, ch, command, calls, navigatorRow>>

upCall ==
    /\ pc = "down"
    /\ navigateUp
    /\ saved' = Append(saved, Noted("navigateUp", 0))
    /\ pc' = "downUp"
    /\ UNCHANGED <<argText, argWidth, argNumber, ch, command, calls, navigatorRow>>

NextDownUp == reach \/ downCall \/ upCall

SpecDownUp == Init /\ [][NextDownUp]_vars

(* A test that makes the same navigation call over and over, from any     *)
(* state that navigation and select/deselect can reach                    *)
firstOfRun ==
    /\ pc = "none"
    /\ \E name \in {"navigateUp", "navigateDown"} :
           /\ Call(name, 0)
           /\ saved' = <<Noted(name, 0)>>
    /\ pc' = "repeat"
    /\ calls' = 1
    /\ UNCHANGED <<argText, argWidth, argNumber, ch, command, navigatorRow>>

nextOfRun ==
    /\ pc = "repeat"
    /\ calls < MaxCalls
    /\ Call(saved[1].name, 0)
    /\ calls' = calls + 1
    /\ UNCHANGED <<argText, argWidth, argNumber, ch, command, pc, saved, navigatorRow>>

NextRepeat == reach \/ firstOfRun \/ nextOfRun

SpecRepeat == Init /\ [][NextRepeat]_vars

----------------------------------------------------------------------------
(* An external component that uses the reference returned by the          *)
(* non-const getItems() (reachable from LCDInventoryController through    *)
(* getDisplayController()) to write to the store.  The controller is not  *)
(* told and does not render.                                              *)

(* The key an external component writes *)
ExternalKey == <<"X">>

(* std::vector<TDisplayItem>& store = controller.getItems(); then one write *)
ThroughGetItems(newItems) ==
    /\ edits < MaxEdits
    /\ items' = newItems
    /\ edits' = edits + 1
    /\ NoPush
    /\ Called("getItems", "void")
    /\ UNCHANGED <<renderer, config, selectedItemIndex, windowStartIndex, isSelected>>

getItemsSetValue ==
    \E i \in 1..Len(items), v \in SetValues :
        ThroughGetItems([items EXCEPT ![i].value = v])

getItemsSetKey ==
    \E i \in 1..Len(items) :
        ThroughGetItems([items EXCEPT ![i].key = ExternalKey])

getItemsPushBack ==
    /\ Len(items) < MaxLen
    /\ ThroughGetItems(Append(items, [key |-> ExternalKey, value |-> 0]))

getItemsClear ==
    /\ Len(items) > 0
    /\ ThroughGetItems(<<>>)

NextAlias ==
    \/ Next
    \/ getItemsSetValue /\ UNCHANGED outside
    \/ getItemsSetKey /\ UNCHANGED outside
    \/ getItemsPushBack /\ UNCHANGED outside
    \/ getItemsClear /\ UNCHANGED outside

SpecAlias == Init /\ [][NextAlias]_vars

----------------------------------------------------------------------------
(* DisplayItem on its own: the arguments are chosen first, then its       *)
(* functions are applied to them.                                         *)

Alphabet == {"a", "b"}

Texts == UNION {[1..n -> Alphabet] : n \in 0..MaxText}

UInt8 == 0..(ValueMod - 1)

Int8 == (0 - ValueMod \div 2)..(ValueMod \div 2 - 1)

(* No controller has been constructed *)
NoController ==
    /\ renderer = "null"
    /\ config = [rows |-> 0, columns |-> 0, navigatorChar |-> " ", separatorChar |-> " "]
    /\ items = <<>>
    /\ selectedItemIndex = 0
    /\ windowStartIndex = 0
    /\ isSelected = FALSE
    /\ lastRenderedLines = <<>>
    /\ lastColumns = 0
    /\ renderCallCount = 0
    /\ op = "new"
    /\ ret = "void"
    /\ repeated = FALSE
    /\ data = <<>>
    /\ edits = 0

InitFormat ==
    /\ NoController
    /\ argWidth \in 0..MaxWidth
    /\ \/ argText \in Texts /\ argNumber = 0
       \/ argText = <<>> /\ argNumber \in UInt8 \cup Int8
    /\ ch = " "
    /\ command = "None"
    /\ pc = "none"
    /\ calls = 0
    /\ saved = <<>>
    /\ navigatorRow = 0

(* A call of a const member function of DisplayItem *)
Apply(name, result) ==
    /\ CalledWith(name, "value", <<result>>)
    /\ UNCHANGED <<renderer, config, items, selectedItemIndex, windowStartIndex,
                   isSelected, lastRenderedLines, lastColumns, renderCallCount, edits>>
    /\ UNCHANGED outside

callFormatToWidth == Apply("formatToWidth", formatToWidth(argText, argWidth))

callToStringUInt8 ==
    /\ argNumber \in UInt8
    /\ Apply("toStringUInt8", toString(argNumber))

callToStringInt8 ==
    /\ argNumber \in Int8
    /\ Apply("toStringInt8", toStringInt8(argNumber))

callGetFormattedKey ==
    Apply("getFormattedKey", getFormattedKey([key |-> argText, value |-> argNumber]))

callGetFormattedValue ==
    /\ argNumber \in UInt8
    /\ Apply("getFormattedValue", getFormattedValue([key |-> argText, value |-> argNumber]))

NextFormat ==
    \/ callFormatToWidth
    \/ callToStringUInt8
    \/ callToStringInt8
    \/ callGetFormattedKey
    \/ callGetFormattedValue

SpecFormat == InitFormat /\ [][NextFormat]_vars

----------------------------------------------------------------------------
(* The host program (main.cpp): ten records of value 0 on a 2 x 16        *)
(* display, one render, then the loop that reads a key and dispatches     *)
(* its command.  The listener has been started, so waitForCommand always  *)
(* reads a character.                                                     *)

ItemCount == 10

(* The characters of charToCommand's cases, x and X, and one other *)
Keys == {"w", "W", "s", "S", "e", "E", "q", "Q", "d", "D", "a", "A", "x", "X", "z"}

charToCommand(c) ==
    CASE c \in {"w", "W"} -> "Up"
      [] c \in {"s", "S"} -> "Down"
      [] c \in {"e", "E"} -> "Select"
      [] c \in {"q", "Q"} -> "Deselect"
      [] c \in {"d", "D"} -> "Increment"
      [] c \in {"a", "A"} -> "Decrement"
      [] OTHER -> "None"

InitHost ==
    /\ renderer = "mock"
    /\ config = [rows |-> 2, columns |-> 16, navigatorChar |-> ">", separatorChar |-> ":"]
    /\ items = createItems(ItemCount, 0)
    /\ selectedItemIndex = 0
    /\ windowStartIndex = 0
    /\ isSelected = FALSE
    /\ lastRenderedLines = renderLines(items, 0, 0)
    /\ lastColumns = config.columns
    /\ renderCallCount = 1
    /\ op = "render"
    /\ ret = "void"
    /\ repeated = FALSE
    /\ data = <<>>
    /\ edits = 0
    /\ argText = <<>>
    /\ argWidth = 0
    /\ argNumber = 0
    /\ ch = " "
    /\ command = "None"
    /\ pc = "loop"
    /\ calls = 0
    /\ saved = <<>>
    /\ navigatorRow = 0

(* Mutant: the None case redraws the display *)
Dispatch_noneRenders(cmd) ==
    CASE cmd = "Up" -> navigateUp
      [] cmd = "Down" -> navigateDown
      [] cmd = "Select" -> selectItem
      [] cmd = "Deselect" -> deselectItem
      [] cmd = "Increment" -> incrementValue
      [] cmd = "Decrement" -> decrementValue
      [] OTHER -> render

(* switch (command) *)
Dispatch(cmd) ==
    CASE cmd = "Up" -> navigateUp
      [] cmd = "Down" -> navigateDown
      [] cmd = "Select" -> selectItem
      [] cmd = "Deselect" -> deselectItem
      [] cmd = "Increment" -> incrementValue
      [] cmd = "Decrement" -> decrementValue
      [] OTHER -> UNCHANGED <<renderer, config, items, selectedItemIndex,
                              windowStartIndex, isSelected, lastRenderedLines,
                              lastColumns, renderCallCount, op, ret, repeated,
                              data, edits>>

(* One iteration of while (true): it has no break and no return *)
mainLoop ==
    /\ pc = "loop"
    /\ \E c \in Keys :
           /\ ch' = c
           /\ command' = charToCommand(c)
           /\ Dispatch(command')
    /\ pc' = "loop"
    /\ UNCHANGED <<argText, argWidth, argNumber, calls, saved, navigatorRow>>

NextHost == mainLoop

(* The loop never blocks for ever: keys keep arriving *)
SpecHost == InitHost /\ [][NextHost]_vars /\ WF_vars(mainLoop)

----------------------------------------------------------------------------
(* A test of LCDInventoryController over uint8_t values: from a store     *)
(* whose values are any 8-bit number it moves the cursor, calls           *)
(* incrementValue or decrementValue and, immediately after it, the        *)
(* opposite call.                                                         *)

InitIncDec ==
    /\ renderer = "mock"
    /\ config = [rows |-> MaxRows, columns |-> requiredWidth,
                 navigatorChar |-> ">", separatorChar |-> ":"]
    /\ \E n \in 0..MaxLen, v \in UInt8 : items = createItems(n, v)
    /\ selectedItemIndex = 0
    /\ windowStartIndex = 0
    /\ isSelected = FALSE
    /\ lastRenderedLines = <<>>
    /\ lastColumns = 0
    /\ renderCallCount = 0
    /\ op = "constructor"
    /\ ret = "void"
    /\ repeated = FALSE
    /\ data = <<>>
    /\ edits = 0
    /\ NoHost

editCall ==
    /\ pc = "none"
    /\ \E name \in {"incrementValue", "decrementValue"} :
           /\ Call(name, 0)
           /\ saved' = <<Noted(name, 0)>>
    /\ pc' = "edited"
    /\ UNCHANGED <<argText, argWidth, argNumber, ch, command, calls, navigatorRow>>

undoCall ==
    /\ pc = "edited"
    /\ IF saved[1].name = "incrementValue" THEN decrementValueBody
                                           ELSE incrementValueBody
    /\ saved' = Append(saved, Noted(op, 0))
    /\ pc' = "undone"
    /\ UNCHANGED <<argText, argWidth, argNumber, ch, command, calls, navigatorRow>>

NextIncDec == reach \/ editCall \/ undoCall

SpecIncDec == InitIncDec /\ [][NextIncDec]_vars

----------------------------------------------------------------------------
(* The controller without scrolling (src/LCDDisplayController.h): the     *)
(* cursor is a display row, navigatorRow, and row r shows record r.       *)

formatRowNoScroll(rowIndex, its, nav) ==
    LET first == IF rowIndex = nav THEN config.navigatorChar ELSE " "
        rest == IF rowIndex < Len(its)
                THEN getFormattedKey(its[rowIndex + 1])
                     \o <<config.separatorChar>>
                     \o getFormattedValue(its[rowIndex + 1])
                ELSE Spaces(IF config.columns > 1 THEN config.columns - 1 ELSE 0)
        line == <<first>> \o rest
    IN  IF Len(line) < config.columns
        THEN line \o Spaces(config.columns - Len(line))
        ELSE IF Len(line) > config.columns
        THEN SubSeq(line, 1, config.columns)
        ELSE line

renderLinesNoScroll(its, nav) ==
    [i \in 1..config.rows |-> formatRowNoScroll(i - 1, its, nav)]

(* The constructor makes the same two tests and starts at row 0 *)
InitNoScroll == Init

(* Both navigation calls return void and render whether or not they moved *)
navigateUpNoScroll ==
    /\ calls < MaxCalls
    /\ navigatorRow' = IF navigatorRow > 0 THEN SizeSub(navigatorRow, 1)
                                           ELSE navigatorRow
    /\ Push(renderLinesNoScroll(items, navigatorRow'))
    /\ Called("navigateUp", "void")
    /\ calls' = calls + 1
    /\ UNCHANGED <<renderer, config, items, selectedItemIndex, windowStartIndex,
                   isSelected, edits>>
    /\ UNCHANGED <<argText, argWidth, argNumber, ch, command, pc, saved>>

navigateDownNoScroll ==
    /\ calls < MaxCalls
    /\ navigatorRow' = IF /\ navigatorRow < SizeSub(config.rows, 1)
                          /\ navigatorRow < SizeSub(Len(items), 1)
                       THEN SizeAdd(navigatorRow, 1)
                       ELSE navigatorRow
    /\ Push(renderLinesNoScroll(items, navigatorRow'))
    /\ Called("navigateDown", "void")
    /\ calls' = calls + 1
    /\ UNCHANGED <<renderer, config, items, selectedItemIndex, windowStartIndex,
                   isSelected, edits>>
    /\ UNCHANGED <<argText, argWidth, argNumber, ch, command, pc, saved>>

NextNoScroll == navigateUpNoScroll \/ navigateDownNoScroll

SpecNoScroll == InitNoScroll /\ [][NextNoScroll]_vars

----------------------------------------------------------------------------
(* Properties *)

Max(a, b) == IF a >= b THEN a ELSE b

(* C1 as stated: for every accepted configuration, after each call,       *)
(* windowStart <= selectedIndex < windowStart + rows, and selectedIndex = *)
(* 0 implies windowStart = 0.                                             *)
C1_Original ==
    op # "constructor" =>
        /\ windowStartIndex <= selectedItemIndex
        /\ selectedItemIndex < windowStartIndex + config.rows
        /\ (selectedItemIndex = 0 => windowStartIndex = 0)

(* C1 amended: for every accepted configuration with rows >= 1, after     *)
(* each call, windowStart <= selectedIndex < windowStart + rows; for      *)
(* every accepted configuration, selectedIndex = 0 implies windowStart =  *)
(* 0.  (With rows = 0, which the constructor accepts, no index lies in    *)
(* the empty window.)                                                     *)
C1_WindowInvariant ==
    /\ config.rows >= 1 =>
           /\ windowStartIndex <= selectedItemIndex
           /\ selectedItemIndex < windowStartIndex + config.rows
    /\ (selectedItemIndex = 0 => windowStartIndex = 0)

(* C1 witness: a navigateDown has scrolled a viewport of two or more rows *)
C1_Witness ==
    /\ config.rows >= 2
    /\ op = "navigateDown" /\ ret = "true"
    /\ windowStartIndex >= 1
    /\ selectedItemIndex = windowStartIndex + config.rows - 1

(* C2: after each call, selectedIndex < length when the store is          *)
(* non-empty, and selectedIndex = windowStart = 0 when it is empty.       *)
C2_IndexInRange ==
    /\ Len(items) > 0 => selectedItemIndex < Len(items)
    /\ Len(items) = 0 => (selectedItemIndex = 0 /\ windowStartIndex = 0)

(* C2 witness: navigateDown was refused at the last record of a store of  *)
(* two or more records                                                    *)
C2_Witness ==
    /\ Len(items) >= 2
    /\ op = "navigateDown" /\ ret = "false"
    /\ selectedItemIndex = Len(items) - 1

(* C3: after each call, windowStart + rows <= max(length, rows).          *)
C3_WindowWithinStore ==
    windowStartIndex + config.rows <= Max(Len(items), config.rows)

(* C3 witness: a navigateDown has scrolled the window onto the last       *)
(* record of a store longer than the viewport                             *)
C3_Witness ==
    /\ config.rows >= 1
    /\ Len(items) > config.rows
    /\ op = "navigateDown" /\ ret = "true"
    /\ windowStartIndex >= 1
    /\ windowStartIndex + config.rows = Len(items)

(* C4: whenever length <= rows, windowStart = 0; canScroll() is true      *)
(* exactly when length > rows.                                            *)
C4_NoScrollWhenFits ==
    /\ Len(items) <= config.rows => windowStartIndex = 0
    /\ canScroll <=> Len(items) > config.rows
    /\ ~canScroll => windowStartIndex = 0

(* C4 witness: the cursor was moved to the last record of a store exactly *)
(* as long as the viewport                                                *)
C4_Witness ==
    /\ config.rows >= 2
    /\ Len(items) = config.rows
    /\ ~canScroll
    /\ op = "navigateDown" /\ ret = "true"
    /\ selectedItemIndex = Len(items) - 1

(* The controller state and the sink's record of the last push *)
observed ==
    <<config, items, selectedItemIndex, windowStartIndex, isSelected,
      lastRenderedLines, lastColumns>>

(* C5: navigateUp: if selectedIndex > 0 it decrements selectedIndex, sets *)
(* windowStart to the new selectedIndex when that is below windowStart    *)
(* (and leaves it otherwise), pushes exactly one render and returns true; *)
(* if selectedIndex = 0 it returns false, changes no state and pushes     *)
(* nothing.                                                               *)
C5_NavigateUp ==
    [][op' = "navigateUp" =>
         IF selectedItemIndex > 0
         THEN /\ selectedItemIndex' = selectedItemIndex - 1
              /\ windowStartIndex' =
                     (IF selectedItemIndex' < windowStartIndex
                      THEN selectedItemIndex' ELSE windowStartIndex)
              /\ renderCallCount' = 1
              /\ ret' = "true"
         ELSE /\ ret' = "false"
              /\ renderCallCount' = 0
              /\ UNCHANGED observed]_vars

(* C5 witness: a navigateUp on a one-row viewport has moved the cursor    *)
(* and the window to a record that is not the first                       *)
C5_Witness ==
    /\ config.rows = 1
    /\ op = "navigateUp" /\ ret = "true" /\ renderCallCount = 1
    /\ selectedItemIndex >= 1
    /\ windowStartIndex = selectedItemIndex

(* C6: navigateDown: if the store is non-empty and selectedIndex <        *)
(* length-1 it increments selectedIndex, sets windowStart to the new      *)
(* selectedIndex - rows + 1 when the new selectedIndex is >= windowStart  *)
(* + rows (and leaves it otherwise), pushes exactly one render and        *)
(* returns true; otherwise it returns false, changes no state and pushes  *)
(* nothing.                                                               *)
C6_NavigateDown ==
    [][op' = "navigateDown" =>
         IF Len(items) > 0 /\ selectedItemIndex < Len(items) - 1
         THEN /\ selectedItemIndex' = selectedItemIndex + 1
              /\ windowStartIndex' =
                     (IF selectedItemIndex' >= windowStartIndex + config.rows
                      THEN selectedItemIndex' - config.rows + 1
                      ELSE windowStartIndex)
              /\ renderCallCount' = 1
              /\ ret' = "true"
         ELSE /\ ret' = "false"
              /\ renderCallCount' = 0
              /\ UNCHANGED observed]_vars

(* C6 witness: a navigateDown has scrolled a two-row viewport             *)
C6_Witness ==
    /\ config.rows = 2
    /\ op = "navigateDown" /\ ret = "true" /\ renderCallCount = 1
    /\ windowStartIndex = 1
    /\ selectedItemIndex = 2

(* C7: selectItem returns true, sets armed and pushes exactly one render  *)
(* iff armed was false; otherwise it returns false and pushes nothing.    *)
(* deselectItem is the mirror image.                                      *)
C7_SelectDeselect ==
    [][/\ op' = "selectItem" =>
            IF ~isSelected
            THEN ret' = "true" /\ isSelected' = TRUE /\ renderCallCount' = 1
            ELSE ret' = "false" /\ renderCallCount' = 0 /\ UNCHANGED observed
       /\ op' = "deselectItem" =>
            IF isSelected
            THEN ret' = "true" /\ isSelected' = FALSE /\ renderCallCount' = 1
            ELSE ret' = "false" /\ renderCallCount' = 0 /\ UNCHANGED observed]_vars

(* C7 witness: a deselectItem has disarmed an armed controller            *)
C7_Witness ==
    /\ op = "deselectItem" /\ ret = "true"
    /\ isSelected = FALSE
    /\ renderCallCount = 1

(* C8 as stated: in any reachable state, selectItem twice in a row        *)
(* returns (true, false) and deselectItem twice in a row returns (true,   *)
(* false); the second call of each pair pushes nothing.                   *)
C8_Original ==
    [][/\ (op = "selectItem" /\ op' = "selectItem") =>
            (ret = "true" /\ ret' = "false" /\ renderCallCount' = 0)
       /\ (op = "deselectItem" /\ op' = "deselectItem") =>
            (ret = "true" /\ ret' = "false" /\ renderCallCount' = 0)]_vars

(* C8 amended: in any reachable state, selectItem twice in a row returns  *)
(* (true, false) when armed was false before the first call and (false,   *)
(* false) when it was true; deselectItem twice in a row returns (true,    *)
(* false) when armed was true before the first call and (false, false)    *)
(* when it was false; the second call of each pair pushes nothing.        *)
C8_TwiceInARow ==
    [][/\ op' = "selectItem" =>
            ret' = (IF isSelected THEN "false" ELSE "true")
       /\ op' = "deselectItem" =>
            ret' = (IF isSelected THEN "true" ELSE "false")
       /\ (op' \in {"selectItem", "deselectItem"} /\ op = op') =>
            (ret' = "false" /\ renderCallCount' = 0 /\ UNCHANGED observed)]_vars

(* C8 witness: the second of two consecutive deselectItem calls has       *)
(* returned false without pushing                                         *)
C8_Witness ==
    /\ op = "deselectItem" /\ repeated
    /\ ret = "false"
    /\ renderCallCount = 0

(* C9: every push to the line sink carries exactly `rows` lines, each     *)
(* exactly `columns` characters long, together with the value `columns`.  *)
C9_PushShape ==
    renderCallCount > 0 =>
        /\ Len(lastRenderedLines) = config.rows
        /\ \A i \in 1..Len(lastRenderedLines) :
               Len(lastRenderedLines[i]) = config.columns
        /\ lastColumns = config.columns

(* C9 witness: a push of two rows, one of them without a record, on a     *)
(* display wider than the records need                                    *)
C9_Witness ==
    /\ renderCallCount = 1
    /\ config.rows = 2
    /\ config.columns > requiredWidth
    /\ Len(items) = 1
    /\ Len(lastRenderedLines) = 2

(* C10 as stated: in every reachable state with a non-empty store,        *)
(* rendered row r shows record windowStart + r as formatKey,              *)
(* separatorGlyph, formatValue when windowStart + r < length and is       *)
(* filled with spaces otherwise; its first cell is cursorGlyph exactly    *)
(* when windowStart + r = selectedIndex, so exactly one row carries the   *)
(* cursor and that row has a backing record.                              *)
C10_Original ==
    (op # "constructor" /\ Len(items) > 0) =>
        LET lines == renderLines(items, selectedItemIndex, windowStartIndex)
            cursorRows == {r \in 0..(config.rows - 1) :
                              lines[r + 1][1] = config.navigatorChar}
        IN  /\ \A r \in 0..(config.rows - 1) :
                   /\ IF windowStartIndex + r < Len(items)
                      THEN SubSeq(lines[r + 1], 2, requiredWidth) =
                               getFormattedKey(items[windowStartIndex + r + 1])
                               \o <<config.separatorChar>>
                               \o getFormattedValue(items[windowStartIndex + r + 1])
                      ELSE \A c \in 2..Len(lines[r + 1]) : lines[r + 1][c] = " "
                   /\ (lines[r + 1][1] = config.navigatorChar)
                          <=> (windowStartIndex + r = selectedItemIndex)
            /\ Cardinality(cursorRows) = 1
            /\ \A r \in cursorRows : windowStartIndex + r < Len(items)

(* C10 amended: in every reachable state with a non-empty store, rendered *)
(* row r shows record windowStart + r as formatKey, separatorGlyph,       *)
(* formatValue when windowStart + r < length and is filled with spaces    *)
(* otherwise; its first cell is cursorGlyph when windowStart + r =        *)
(* selectedIndex and a space otherwise, so when rows >= 1 and cursorGlyph *)
(* is not the space exactly one row carries the cursor and that row has a *)
(* backing record.                                                        *)
C10_RowContent ==
    Len(items) > 0 =>
        LET lines == renderLines(items, selectedItemIndex, windowStartIndex)
            cursorRows == {r \in 0..(config.rows - 1) :
                              lines[r + 1][1] = config.navigatorChar}
        IN  /\ \A r \in 0..(config.rows - 1) :
                   /\ IF windowStartIndex + r < Len(items)
                      THEN SubSeq(lines[r + 1], 2, requiredWidth) =
                               getFormattedKey(items[windowStartIndex + r + 1])
                               \o <<config.separatorChar>>
                               \o getFormattedValue(items[windowStartIndex + r + 1])
                      ELSE \A c \in 2..Len(lines[r + 1]) : lines[r + 1][c] = " "
                   /\ lines[r + 1][1] =
                          (IF windowStartIndex + r = selectedItemIndex
                           THEN config.navigatorChar ELSE " ")
            /\ (config.rows >= 1 /\ config.navigatorChar # " ") =>
                   /\ Cardinality(cursorRows) = 1
                   /\ \A r \in cursorRows :
                          /\ windowStartIndex + r = selectedItemIndex
                          /\ windowStartIndex + r < Len(items)

(* C10 witness: a scrolled two-row window with a visible cursor glyph on  *)
(* its second row has been pushed                                         *)
C10_Witness ==
    /\ config.rows = 2
    /\ config.navigatorChar # " "
    /\ windowStartIndex = 1
    /\ selectedItemIndex = 2
    /\ renderCallCount = 1
    /\ lastRenderedLines = renderLines(items, selectedItemIndex, windowStartIndex)
    /\ lastRenderedLines[2][1] = config.navigatorChar
    /\ lastRenderedLines[1][1] = " "

(* C11: with an empty store, render raises no error and pushes `rows`     *)
(* lines that are entirely blank (all spaces), none of which bears the    *)
(* cursor glyph.                                                          *)
C11_EmptyStoreBlank ==
    (Len(items) = 0 /\ op = "render") =>
        /\ ret = "void"
        /\ renderCallCount = 1
        /\ Len(lastRenderedLines) = config.rows
        /\ \A i \in 1..Len(lastRenderedLines) :
               /\ \A c \in 1..Len(lastRenderedLines[i]) :
                      lastRenderedLines[i][c] = " "
               /\ config.navigatorChar # " " =>
                      lastRenderedLines[i][1] # config.navigatorChar

(* C12: on a store with zero or one record, navigateUp and navigateDown   *)
(* both return false, leave selectedIndex, windowStart, armed and the     *)
(* store unchanged and push nothing, for any number of calls.             *)
C12_ShortStoreNoNavigation ==
    [][(Len(items) <= 1 /\ op' \in {"navigateUp", "navigateDown"}) =>
           /\ ret' = "false"
           /\ renderCallCount' = 0
           /\ UNCHANGED observed]_vars

(* C12 witness: navigateDown was refused twice in a row on a store of one *)
(* record                                                                 *)
C12_Witness ==
    /\ Len(items) = 1
    /\ op = "navigateDown" /\ repeated
    /\ ret = "false"
    /\ renderCallCount = 0
    /\ selectedItemIndex = 0

(* C13: on a non-empty store setCurrentValue(v) overwrites the value at    *)
(* selectedIndex with v, leaves every other value and every key (and the  *)
(* cursor, window and armed flag) unchanged, and pushes exactly once,     *)
(* also when v equals the old value.                                      *)
C13_SetCurrentValue ==
    [][(Len(items) # 0 /\ op' = "setCurrentValue") =>
           /\ ret' = "void"
           /\ Len(data') = 1
           /\ Len(items') = Len(items)
           /\ items'[selectedItemIndex + 1].value = data'[1]
           /\ \A i \in 1..Len(items) :
                  /\ items'[i].key = items[i].key
                  /\ i # selectedItemIndex + 1 => items'[i].value = items[i].value
           /\ renderCallCount' = 1
           /\ lastRenderedLines' =
                  renderLines(items', selectedItemIndex, windowStartIndex)
           /\ UNCHANGED <<config, selectedItemIndex, windowStartIndex, isSelected>>]_vars

(* C13 witness: setCurrentValue(255) on a record other than the first,    *)
(* whose value was 255 already, has pushed once                           *)
C13_Witness ==
    /\ op = "setCurrentValue" /\ ret = "void"
    /\ data = <<255>>
    /\ Len(items) >= 2
    /\ selectedItemIndex >= 1
    /\ \A i \in 1..Len(items) : items[i].value = 255
    /\ renderCallCount = 1

(* C14: in every reachable state with a non-empty store getCurrentValue   *)
(* and getCurrentKey return the value and the key of the record at        *)
(* selectedIndex; they change no state and never push.                    *)
C14_Getters ==
    [][(Len(items) # 0 /\ op' \in {"getCurrentValue", "getCurrentKey"}) =>
           /\ ret' = "value"
           /\ op' = "getCurrentValue" =>
                  data' = <<items[selectedItemIndex + 1].value>>
           /\ op' = "getCurrentKey" =>
                  data' = <<items[selectedItemIndex + 1].key>>
           /\ renderCallCount' = 0
           /\ UNCHANGED observed]_vars

(* C14 witness: getCurrentKey has returned the key of a record that is    *)
(* neither the first of the store nor the first of the window             *)
C14_Witness ==
    /\ op = "getCurrentKey" /\ ret = "value"
    /\ selectedItemIndex >= 1
    /\ selectedItemIndex > windowStartIndex
    /\ data = <<items[selectedItemIndex + 1].key>>
    /\ renderCallCount = 0

(* C15: on an empty store each of getCurrentValue, getCurrentKey,         *)
(* setCurrentValue, incrementValue and decrementValue fails with an       *)
(* out-of-range error, pushes nothing and leaves all state unchanged.     *)
C15_EmptyStoreAccess ==
    [][(Len(items) = 0 /\ op' \in {"getCurrentValue", "getCurrentKey", "setCurrentValue",
                                    "incrementValue", "decrementValue"}) =>
           /\ ret' = "out_of_range"
           /\ data' = <<>>
           /\ renderCallCount' = 0
           /\ UNCHANGED observed]_vars

(* C15 witness: after a render of the empty store, setCurrentValue has    *)
(* failed and the lines of that render are still the last ones pushed     *)
C15_Witness ==
    /\ Len(items) = 0
    /\ op = "setCurrentValue" /\ ret = "out_of_range"
    /\ renderCallCount = 0
    /\ Len(lastRenderedLines) = MaxRows
    /\ selectedItemIndex = 0 /\ windowStartIndex = 0 /\ ~isSelected

(* C16: every public operation either completes, pushing at most once,    *)
(* or fails with selectedIndex, windowStart, armed and the store exactly  *)
(* as they were before the call, also when the failure is raised by the   *)
(* line sink during the push of navigateUp, navigateDown, selectItem,     *)
(* deselectItem or setCurrentValue.                                       *)
C16_AtomicFailure ==
    [][/\ renderCallCount' <= 1
       /\ ret' \in {"out_of_range", "sink_error"} =>
              UNCHANGED <<items, selectedItemIndex, windowStartIndex, isSelected>>]_vars

(* C17: construction fails with an invalid-argument error if and only if  *)
(* the sink is null or columns < 1 + keyWidth + 1 + valueWidth; every     *)
(* other configuration (any rows, any glyphs, any store, the empty one    *)
(* included) is accepted.                                                 *)
C17_ConstructionFailsIff ==
    [][op' = "constructor" =>
           /\ ret' \in {"void", "invalid_argument"}
           /\ ret' = "invalid_argument" <=>
                  (renderer = "null" \/ config.columns < 1 + KeyWidth + 1 + ValueWidth)]_vars

(* C17 witness: a display exactly as wide as a row, with no rows, blank   *)
(* navigator glyph and an empty store has been accepted                   *)
C17_Witness ==
    /\ op = "constructor" /\ ret = "void"
    /\ config.columns = 1 + KeyWidth + 1 + ValueWidth
    /\ config.rows = 0
    /\ config.navigatorChar = " "
    /\ Len(items) = 0

(* C18: a successful construction leaves selectedIndex = 0, windowStart = *)
(* 0 and armed = false for every store; construction, successful or       *)
(* failed, never pushes; the first push is made by render or by a         *)
(* state-changing operation.                                              *)
C18_ConstructionState ==
    [][/\ op' = "constructor" =>
              /\ renderCallCount' = 0
              /\ lastColumns' = 0 /\ lastRenderedLines' = <<>>
              /\ ret' = "void" =>
                     /\ selectedItemIndex' = 0
                     /\ windowStartIndex' = 0
                     /\ isSelected' = FALSE
                     /\ items' = items
       /\ (lastColumns = 0 /\ lastColumns' # 0) =>
              /\ op' \in {"render", "navigateUp", "navigateDown", "selectItem",
                           "deselectItem", "setCurrentValue", "incrementValue",
                           "decrementValue"}
              /\ ret' \in {"void", "true"}]_vars

(* C18 witness: a store of several records has been constructed and the   *)
(* sink has received nothing                                              *)
C18_Witness ==
    /\ op = "constructor" /\ ret = "void"
    /\ Len(items) >= 2
    /\ selectedItemIndex = 0 /\ windowStartIndex = 0 /\ ~isSelected
    /\ lastColumns = 0 /\ renderCallCount = 0

(* C19: on a non-empty store incrementValue (decrementValue) reads the    *)
(* value at selectedIndex, adds (subtracts) one in the 8-bit value type,  *)
(* writes it back to that same record and pushes exactly once; no other   *)
(* record, no key and no navigation field changes.                        *)
C19_IncrementDecrement ==
    [][(Len(items) # 0 /\ op' \in {"incrementValue", "decrementValue"}) =>
           /\ ret' = "void"
           /\ Len(items') = Len(items)
           /\ op' = "incrementValue" =>
                  (items'[selectedItemIndex + 1].value
                       - items[selectedItemIndex + 1].value - 1) % 2^8 = 0
           /\ op' = "decrementValue" =>
                  (items'[selectedItemIndex + 1].value
                       - items[selectedItemIndex + 1].value + 1) % 2^8 = 0
           /\ items'[selectedItemIndex + 1].value \in 0..(2^8 - 1)
           /\ data' = <<items'[selectedItemIndex + 1].value>>
           /\ \A i \in 1..Len(items) :
                  /\ items'[i].key = items[i].key
                  /\ i # selectedItemIndex + 1 => items'[i].value = items[i].value
           /\ renderCallCount' = 1
           /\ lastRenderedLines' =
                  renderLines(items', selectedItemIndex, windowStartIndex)
           /\ UNCHANGED <<config, selectedItemIndex, windowStartIndex, isSelected>>]_vars

(* C19 witness: decrementValue has taken a record other than the first    *)
(* from 255 to 254 and pushed once                                        *)
C19_Witness ==
    /\ op = "decrementValue" /\ ret = "void"
    /\ selectedItemIndex >= 1
    /\ items[selectedItemIndex + 1].value = 254
    /\ items[1].value = 255
    /\ data = <<254>>
    /\ renderCallCount = 1

(* C20: with the 8-bit unsigned value type incrementValue at 255 yields 0 *)
(* and decrementValue at 0 yields 255 (wrap modulo 2^8, no saturation).   *)
C20_Wraps ==
    [][/\ (op' = "incrementValue" /\ ret' = "void"
               /\ items[selectedItemIndex + 1].value = 255) =>
              items'[selectedItemIndex + 1].value = 0
       /\ (op' = "decrementValue" /\ ret' = "void"
               /\ items[selectedItemIndex + 1].value = 0) =>
              items'[selectedItemIndex + 1].value = 255]_vars

(* C20 witness: incrementValue has taken the selected record from 255,    *)
(* the value the other records still have, to 0                           *)
C20_Witness ==
    /\ op = "incrementValue" /\ ret = "void"
    /\ Len(items) >= 2
    /\ items[selectedItemIndex + 1].value = 0
    /\ \A i \in 1..Len(items) : i # selectedItemIndex + 1 => items[i].value = 255

(* C21: for every text t and width w the formatted text has exactly w     *)
(* characters; when len(t) <= w it starts with t and the remaining cells  *)
(* are spaces; when len(t) > w it is the first w characters of t.  The    *)
(* formatted key has KeyWidth and the formatted value ValueWidth cells.   *)
C21_FormatToWidth ==
    /\ op = "formatToWidth" =>
           /\ Len(data[1]) = argWidth
           /\ Len(argText) <= argWidth =>
                  /\ \A i \in 1..Len(argText) : data[1][i] = argText[i]
                  /\ \A i \in (Len(argText) + 1)..argWidth : data[1][i] = " "
           /\ Len(argText) > argWidth =>
                  \A i \in 1..argWidth : data[1][i] = argText[i]
    /\ op = "getFormattedKey" =>
           /\ Len(data[1]) = KeyWidth
           /\ \A i \in 1..KeyWidth :
                  data[1][i] = IF i <= Len(argText) THEN argText[i] ELSE " "
    /\ op = "getFormattedValue" => Len(data[1]) = ValueWidth

(* C21 witness: a text of three characters has been cut to a width of two *)
C21_Witness ==
    /\ op = "formatToWidth"
    /\ Len(argText) = 3 /\ argWidth = 2
    /\ data = <<SubSeq(argText, 1, 2)>>

(* The digits "0".."9" and the number a digit string denotes *)
IsDigit(c) == \E d \in 0..9 : Digit(d) = c

DigitValue(c) == CHOOSE d \in 0..9 : Digit(d) = c

RECURSIVE Denotes(_)
Denotes(digits) ==
    IF digits = <<>> THEN 0
    ELSE Denotes(SubSeq(digits, 1, Len(digits) - 1)) * 10 + DigitValue(digits[Len(digits)])

(* s is the decimal numeral of n: an optional "-", then digits without a  *)
(* leading zero that denote |n|                                           *)
IsNumeralOf(s, n) ==
    LET digits == IF n < 0 THEN Tail(s) ELSE s
    IN  /\ Len(s) >= 1
        /\ n < 0 => s[1] = "-"
        /\ Len(digits) >= 1
        /\ \A i \in 1..Len(digits) : IsDigit(digits[i])
        /\ Len(digits) > 1 => digits[1] # "0"
        /\ Denotes(digits) = (IF n < 0 THEN 0 - n ELSE n)

(* C22: an 8-bit unsigned or signed value is rendered as its decimal      *)
(* numeral, never as the character with that code, for every value of    *)
(* the type; the formatted value is that numeral padded with spaces to    *)
(* the value width.                                                       *)
C22_DecimalNumeral ==
    /\ op \in {"toStringUInt8", "toStringInt8"} => IsNumeralOf(data[1], argNumber)
    /\ op = "getFormattedValue" =>
           \E k \in 1..ValueWidth :
               /\ IsNumeralOf(SubSeq(data[1], 1, k), argNumber)
               /\ \A i \in (k + 1)..ValueWidth : data[1][i] = " "

(* C22 witness: 99 has been formatted as "99" and one space *)
C22_Witness ==
    /\ op = "getFormattedValue"
    /\ argNumber = 99
    /\ data = << <<"9", "9", " ">> >>

(* C23: the host loop dispatches each command to exactly one controller   *)
(* operation (Up -> navigateUp, Down -> navigateDown, Select ->           *)
(* selectItem, Deselect -> deselectItem, Increment -> incrementValue,     *)
(* Decrement -> decrementValue) and treats None as a strict no-op: no     *)
(* controller state changes and nothing is pushed to the sink.            *)
C23_Dispatch ==
    [][pc = "loop" =>
           /\ command' = "Up" => op' = "navigateUp"
           /\ command' = "Down" => op' = "navigateDown"
           /\ command' = "Select" => op' = "selectItem"
           /\ command' = "Deselect" => op' = "deselectItem"
           /\ command' = "Increment" => op' = "incrementValue"
           /\ command' = "Decrement" => op' = "decrementValue"
           /\ command' \in {"Up", "Down", "Select", "Deselect"} =>
                  /\ ret' \in {"true", "false"}
                  /\ renderCallCount' = (IF ret' = "true" THEN 1 ELSE 0)
                  /\ items' = items
           /\ command' \in {"Increment", "Decrement"} =>
                  /\ ret' = "void"
                  /\ renderCallCount' = 1
                  /\ UNCHANGED <<selectedItemIndex, windowStartIndex, isSelected>>
           /\ command' = "None" =>
                  UNCHANGED <<observed, renderCallCount, op, ret, repeated, data>>
           /\ command' \in {"Up", "Down", "Select", "Deselect", "Increment",
                             "Decrement", "None"}]_vars

(* C23 witness: after a Down command has moved the cursor and pushed, a   *)
(* key without a command has been read and the controller still shows     *)
(* that navigateDown as its latest call                                   *)
C23_Witness ==
    /\ pc = "loop"
    /\ ch = "z" /\ command = "None"
    /\ op = "navigateDown" /\ ret = "true"
    /\ selectedItemIndex = 1
    /\ renderCallCount = 1

(* C25: pressing x or X exits the program: once an x/X key has been read  *)
(* by the input listener, the host main loop eventually terminates.       *)
C25_ExitOnX == (ch \in {"x", "X"}) ~> (pc = "exited")

(* C24: after construction the controller is the only writer of its       *)
(* record store: the record count, order and keys never change, a value   *)
(* changes only through setCurrentValue, incrementValue or decrementValue *)
(* at selectedIndex, and no public operation gives an external component  *)
(* a writable alias to the store.                                         *)
C24_OnlyWriter ==
    [][/\ op' # "getItems"
       /\ Len(items') = Len(items)
       /\ \A i \in 1..Len(items) :
              /\ items'[i].key = items[i].key
              /\ items'[i].value # items[i].value =>
                     /\ op' \in {"setCurrentValue", "incrementValue", "decrementValue"}
                     /\ i = selectedItemIndex + 1]_vars

Min(a, b) == IF a <= b THEN a ELSE b

(* C26 as stated: whenever a successful navigateDown moves the cursor     *)
(* below the current window, windowStart advances by exactly 1 and the    *)
(* cursor ends on the bottom row (getNavigatorRow() = rows - 1); further  *)
(* successful navigateDown calls keep the cursor on the bottom row.       *)
C26_Original ==
    [][(op' = "navigateDown" /\ ret' = "true") =>
           /\ selectedItemIndex' >= windowStartIndex + config.rows =>
                  /\ windowStartIndex' = windowStartIndex + 1
                  /\ selectedItemIndex' - windowStartIndex' = config.rows - 1
           /\ (selectedItemIndex - windowStartIndex = config.rows - 1) =>
                  selectedItemIndex' - windowStartIndex' = config.rows - 1]_vars

(* C26 amended: with rows >= 1, whenever a successful navigateDown moves  *)
(* the cursor below the current window, windowStart advances by exactly 1 *)
(* and the cursor ends on the bottom row (getNavigatorRow() = rows - 1);  *)
(* a successful navigateDown from the bottom row keeps the cursor on the  *)
(* bottom row.                                                            *)
C26_ScrollDown ==
    [][(config.rows >= 1 /\ op' = "navigateDown" /\ ret' = "true") =>
           /\ selectedItemIndex' >= windowStartIndex + config.rows =>
                  /\ windowStartIndex' = windowStartIndex + 1
                  /\ getNavigatorRowInWindow(selectedItemIndex', windowStartIndex')
                         = config.rows - 1
           /\ (selectedItemIndex - windowStartIndex = config.rows - 1) =>
                  /\ selectedItemIndex' >= windowStartIndex + config.rows
                  /\ selectedItemIndex' - windowStartIndex' = config.rows - 1]_vars

(* C26 witness: the second navigateDown in a row has scrolled a viewport  *)
(* of two rows and the cursor is on its bottom row                        *)
C26_Witness ==
    /\ config.rows = 2
    /\ op = "navigateDown" /\ ret = "true" /\ repeated
    /\ windowStartIndex >= 1
    /\ selectedItemIndex - windowStartIndex = 1

(* C27 as stated: whenever a successful navigateUp moves the cursor above *)
(* the current window, windowStart decreases by exactly 1 and equals the  *)
(* new selectedIndex, so the cursor ends on the top row                   *)
(* (getNavigatorRow() = 0).                                               *)
C27_Original ==
    [][(op' = "navigateUp" /\ ret' = "true"
            /\ selectedItemIndex' < windowStartIndex) =>
           /\ windowStartIndex' = windowStartIndex - 1
           /\ windowStartIndex' = selectedItemIndex'
           /\ getNavigatorRowInWindow(selectedItemIndex', windowStartIndex') = 0]_vars

(* C27 amended: with rows >= 1, whenever a successful navigateUp moves    *)
(* the cursor above the current window, windowStart decreases by exactly  *)
(* 1; with any rows, windowStart then equals the new selectedIndex, so    *)
(* the cursor ends on the top row (getNavigatorRow() = 0).                *)
C27_ScrollUp ==
    [][(op' = "navigateUp" /\ ret' = "true"
            /\ selectedItemIndex' < windowStartIndex) =>
           /\ config.rows >= 1 => windowStartIndex' = windowStartIndex - 1
           /\ windowStartIndex' = selectedItemIndex'
           /\ getNavigatorRowInWindow(selectedItemIndex', windowStartIndex') = 0]_vars

(* C27 witness: the second navigateUp in a row from the last of three     *)
(* records has moved a scrolled two-row viewport back to the top          *)
C27_Witness ==
    /\ config.rows = 2
    /\ Len(items) = 3
    /\ op = "navigateUp" /\ ret = "true" /\ repeated
    /\ windowStartIndex = 0
    /\ selectedItemIndex = 0

(* The window starting at w shows the record at index sel *)
Shows(w, sel) == w <= sel /\ sel < w + config.rows

Dist(a, b) == IF a >= b THEN a - b ELSE b - a

(* C28 as stated: the window moves minimally: a navigation step whose new *)
(* selectedIndex already lies in [windowStart, windowStart + rows) leaves *)
(* windowStart unchanged, and in every step the new windowStart is the    *)
(* value closest to the old one that keeps the cursor inside the window   *)
(* (so |windowStart' - windowStart| <= 1).                                *)
C28_Original ==
    [][op' \in {"navigateUp", "navigateDown"} =>
           /\ Shows(windowStartIndex, selectedItemIndex') =>
                  windowStartIndex' = windowStartIndex
           /\ Shows(windowStartIndex', selectedItemIndex')
           /\ \A w \in 0..Len(items) :
                  Shows(w, selectedItemIndex') =>
                      Dist(windowStartIndex', windowStartIndex) <= Dist(w, windowStartIndex)
           /\ Dist(windowStartIndex', windowStartIndex) <= 1]_vars

(* C28 amended: with rows >= 1 the window moves minimally: a navigation   *)
(* step whose new selectedIndex already lies in [windowStart, windowStart *)
(* + rows) leaves windowStart unchanged, and in every step the new        *)
(* windowStart is the value closest to the old one that keeps the cursor  *)
(* inside the window (so |windowStart' - windowStart| <= 1).              *)
C28_MinimalMove ==
    [][(config.rows >= 1 /\ op' \in {"navigateUp", "navigateDown"}) =>
           /\ Shows(windowStartIndex, selectedItemIndex') =>
                  windowStartIndex' = windowStartIndex
           /\ Shows(windowStartIndex', selectedItemIndex')
           /\ \A w \in 0..Len(items) :
                  Shows(w, selectedItemIndex') =>
                      Dist(windowStartIndex', windowStartIndex) <= Dist(w, windowStartIndex)
           /\ Dist(windowStartIndex', windowStartIndex) <= 1]_vars

(* C28 witness: a navigateUp inside a scrolled two-row viewport has left  *)
(* the window where it was                                                *)
C28_Witness ==
    /\ config.rows = 2
    /\ op = "navigateUp" /\ ret = "true"
    /\ windowStartIndex = 1
    /\ selectedItemIndex = 1
    /\ Len(items) = 3
    /\ ~repeated

(* C29: starting from a freshly constructed controller with rows >= 1,    *)
(* after k consecutive navigateDown calls selectedIndex = min(k, length - *)
(* 1) (0 for an empty store) and windowStart = max(0, selectedIndex -     *)
(* rows + 1); at the last record of a store longer than the viewport      *)
(* windowStart = length - rows.                                           *)
C29_AfterKDown ==
    config.rows >= 1 =>
        /\ selectedItemIndex =
               (IF Len(items) = 0 THEN 0 ELSE Min(calls, Len(items) - 1))
        /\ windowStartIndex = Max(0, selectedItemIndex - config.rows + 1)
        /\ (selectedItemIndex = Len(items) - 1 /\ Len(items) > config.rows) =>
               windowStartIndex = Len(items) - config.rows

(* C29 witness: three records, two rows, two navigateDown calls           *)
C29_Witness ==
    /\ Len(items) = 3 /\ config.rows = 2
    /\ calls = 2
    /\ selectedItemIndex = 2 /\ windowStartIndex = 1
    /\ canScroll

(* C30 as stated: navigateUp never produces a selectedIndex greater than  *)
(* the previous one and navigateDown never produces a selectedIndex       *)
(* smaller than the previous one or greater than length - 1; each call    *)
(* changes selectedIndex by at most 1.                                    *)
C30_Original ==
    [][/\ op' = "navigateUp" => selectedItemIndex' <= selectedItemIndex
       /\ op' = "navigateDown" =>
              /\ selectedItemIndex' >= selectedItemIndex
              /\ selectedItemIndex' <= Len(items) - 1
       /\ op' \in {"navigateUp", "navigateDown"} =>
              Dist(selectedItemIndex', selectedItemIndex) <= 1]_vars

(* C30 amended: navigateUp never produces a selectedIndex greater than    *)
(* the previous one and navigateDown never produces a selectedIndex       *)
(* smaller than the previous one or, on a non-empty store, greater than   *)
(* length - 1 (on an empty store selectedIndex stays 0); each call        *)
(* changes selectedIndex by at most 1.                                    *)
C30_MonotonicBounds ==
    [][/\ op' = "navigateUp" => selectedItemIndex' <= selectedItemIndex
       /\ op' = "navigateDown" =>
              /\ selectedItemIndex' >= selectedItemIndex
              /\ Len(items) > 0 => selectedItemIndex' <= Len(items) - 1
              /\ Len(items) = 0 => selectedItemIndex' = 0
       /\ op' \in {"navigateUp", "navigateDown"} =>
              Dist(selectedItemIndex', selectedItemIndex) <= 1]_vars

(* C30 witness: navigateDown has been refused at the last record of a     *)
(* store of several records                                               *)
C30_Witness ==
    /\ Len(items) >= 2
    /\ op = "navigateDown" /\ ret = "false"
    /\ selectedItemIndex = Len(items) - 1

(* C31 as stated: when a key's or value's text is shorter than the        *)
(* configured width, formatKey/formatValue left-pad it with spaces to the *)
(* configured width (the spaces come first, the text ends the field).     *)
C31_Original ==
    /\ (op = "formatToWidth" /\ Len(argText) < argWidth) =>
           data[1] = Spaces(argWidth - Len(argText)) \o argText
    /\ (op = "getFormattedKey" /\ Len(argText) < KeyWidth) =>
           data[1] = Spaces(KeyWidth - Len(argText)) \o argText

(* C31 amended: when a key's or value's text is shorter than the          *)
(* configured width, formatKey/formatValue append spaces to it up to the  *)
(* configured width (the text comes first, left-aligned, the spaces end   *)
(* the field).                                                            *)
C31_PadsOnTheRight ==
    /\ (op = "formatToWidth" /\ Len(argText) < argWidth) =>
           data[1] = argText \o Spaces(argWidth - Len(argText))
    /\ (op = "getFormattedKey" /\ Len(argText) < KeyWidth) =>
           data[1] = argText \o Spaces(KeyWidth - Len(argText))

(* C31 witness: "ab" has been formatted to a width of four as "ab" and    *)
(* two spaces                                                             *)
C31_Witness ==
    /\ op = "formatToWidth"
    /\ argText = <<"a", "b">> /\ argWidth = 4
    /\ data = << <<"a", "b", " ", " ">> >>

(* C32: every push made by a state-changing operation happens after the   *)
(* state mutation: whenever the latest call is navigateUp, navigateDown,  *)
(* selectItem, deselectItem or setCurrentValue (also reached through      *)
(* incrementValue and decrementValue) and it pushed, the lines in the     *)
(* sink are the lines that render computes from the state the call left   *)
(* behind, that is the lines an immediately following render would push.  *)
C32_PushAfterMutation ==
    (/\ op \in {"navigateUp", "navigateDown", "selectItem", "deselectItem",
                "setCurrentValue", "incrementValue", "decrementValue"}
     /\ renderCallCount > 0) =>
        /\ renderCallCount = 1
        /\ lastRenderedLines =
               renderLines(items, selectedItemIndex, windowStartIndex)
        /\ lastColumns = config.columns

(* C32 witness: a setCurrentValue that changed the value under the cursor *)
(* from 0 to 7 has pushed a first line that already shows the 7           *)
C32_Witness ==
    /\ op = "setCurrentValue" /\ ret = "void" /\ renderCallCount = 1
    /\ config.rows = 2 /\ Len(items) = 2
    /\ selectedItemIndex = 1
    /\ items[2].value = 7 /\ items[1].value = 0
    /\ lastRenderedLines =
           renderLines(items, selectedItemIndex, windowStartIndex)
    /\ lastRenderedLines[2] =
           formatRow(1, items, selectedItemIndex, windowStartIndex)

(* C34: each operation changes only its own part of the state:            *)
(* selectItem and deselectItem leave selectedIndex, windowStart and the   *)
(* store unchanged; navigateUp and navigateDown leave armed and the store *)
(* unchanged; setCurrentValue leaves selectedIndex, windowStart and armed *)
(* unchanged; render and the getters change no controller field, and the  *)
(* getters leave the sink alone too. The configuration never changes.     *)
C34_OwnPartOnly ==
    [][ /\ op' \in {"selectItem", "deselectItem"} =>
              UNCHANGED <<selectedItemIndex, windowStartIndex, items>>
        /\ op' \in {"navigateUp", "navigateDown"} =>
              UNCHANGED <<isSelected, items>>
        /\ op' = "setCurrentValue" =>
              UNCHANGED <<selectedItemIndex, windowStartIndex, isSelected>>
        /\ op' \in {"render", "getCurrentValue", "getCurrentKey"} =>
              UNCHANGED <<selectedItemIndex, windowStartIndex, isSelected, items>>
        /\ op' \in {"getCurrentValue", "getCurrentKey"} =>
              UNCHANGED <<lastRenderedLines, lastColumns>>
        /\ UNCHANGED <<config, renderer>>
      ]_vars

(* C34 witness: a deselectItem has cleared the flag while the cursor sits *)
(* on the last record of a scrolled window and a value has been edited    *)
C34_Witness ==
    /\ op = "deselectItem" /\ ret = "true" /\ ~isSelected
    /\ config.rows = 2 /\ Len(items) = 3
    /\ selectedItemIndex = 2 /\ windowStartIndex = 1
    /\ edits = 1

(* C33: the armed flag influences nothing but its own accessor and the    *)
(* results of select/deselect: when the same navigation, edit or render   *)
(* call is made in two controller states that differ only in armed, both  *)
(* calls yield the same selectedIndex, windowStart, store, return value   *)
(* and pushed lines, and neither call changes the flag.                   *)
C33_ArmedIrrelevant ==
    pc = "second" =>
        /\ selectedItemIndex = saved[2].sel
        /\ windowStartIndex = saved[2].ws
        /\ items = saved[2].items
        /\ ret = saved[2].ret
        /\ renderCallCount = saved[2].pushes
        /\ (renderCallCount > 0 => lastRenderedLines = saved[2].lines)
        /\ saved[2].armed = saved[1].armed
        /\ isSelected = ~saved[1].armed

(* C33 witness: navigateDown has scrolled a two-row window over three     *)
(* records once with the flag set and once with the flag clear            *)
C33_Witness ==
    /\ pc = "second" /\ op = "navigateDown" /\ ret = "true"
    /\ saved[1].armed /\ ~isSelected
    /\ config.rows = 2 /\ Len(items) = 3
    /\ selectedItemIndex = 2 /\ windowStartIndex = 1
    /\ renderCallCount = 1

(* C35 as stated: a navigateDown that returns true, immediately followed  *)
(* by navigateUp, restores selectedIndex; it restores windowStart exactly *)
(* when the navigateDown did not scroll, and otherwise leaves windowStart *)
(* one greater than before.                                               *)
C35_Original ==
    (pc = "downUp" /\ saved[2].ret = "true") =>
        LET scrolled == saved[2].ws # saved[1].ws
        IN  /\ selectedItemIndex = saved[1].sel
            /\ (windowStartIndex = saved[1].ws) <=> ~scrolled
            /\ scrolled => windowStartIndex = saved[1].ws + 1

(* C35, corrected: a navigateDown that returns true, immediately followed *)
(* by navigateUp, restores selectedIndex. With two or more rows it        *)
(* restores windowStart exactly when the navigateDown did not scroll and  *)
(* otherwise leaves windowStart one greater than before. With one row the *)
(* navigateDown always scrolls and the navigateUp scrolls back, so        *)
(* windowStart is restored as well.                                       *)
C35_DownThenUp ==
    (pc = "downUp" /\ saved[2].ret = "true") =>
        LET scrolled == saved[2].ws # saved[1].ws
        IN  /\ selectedItemIndex = saved[1].sel
            /\ config.rows >= 2 =>
                   /\ (windowStartIndex = saved[1].ws) <=> ~scrolled
                   /\ scrolled => windowStartIndex = saved[1].ws + 1
            /\ config.rows = 1 =>
                   /\ scrolled
                   /\ windowStartIndex = saved[1].ws

(* C35 witness: two rows, three records, cursor on the bottom row of the  *)
(* unscrolled window; navigateDown scrolls to 1 and navigateUp leaves the *)
(* window there, with the cursor back on record 1                         *)
C35_Witness ==
    /\ pc = "downUp" /\ saved[2].ret = "true" /\ ret = "true"
    /\ config.rows = 2 /\ Len(items) = 3
    /\ saved[1].sel = 1 /\ saved[1].ws = 0
    /\ saved[2].sel = 2 /\ saved[2].ws = 1
    /\ selectedItemIndex = 1 /\ windowStartIndex = 1

(* C36: from any reachable state of a non-empty store, repeated           *)
(* navigateDown returns true exactly length - 1 - selectedIndex times and *)
(* false from then on, and repeated navigateUp returns true exactly       *)
(* selectedIndex times and false from then on: the k-th call of the run   *)
(* returns true iff k is at most that number, and after it the cursor is  *)
(* k records further, or rests at the last (first) record.                *)
C36_RunLength ==
    (pc = "repeat" /\ Len(saved[1].items) > 0) =>
        LET start == saved[1].sel
            last == Len(items) - 1
        IN  /\ saved[1].name = "navigateDown" =>
                   /\ ret = "true" <=> calls <= last - start
                   /\ selectedItemIndex = Min(start + calls, last)
            /\ saved[1].name = "navigateUp" =>
                   /\ ret = "true" <=> calls <= start
                   /\ selectedItemIndex = Max(start - calls, 0)

(* C36 witness: from record 1 of three, the second navigateUp of a run is *)
(* the first to return false and the cursor rests at record 0             *)
C36_Witness ==
    /\ pc = "repeat" /\ saved[1].name = "navigateUp"
    /\ Len(items) = 3 /\ saved[1].sel = 1
    /\ calls = 2 /\ ret = "false"
    /\ selectedItemIndex = 0

(* C37: for an 8-bit value type and every current value, the type bounds  *)
(* included, incrementValue followed by decrementValue (and decrementValue *)
(* followed by incrementValue) restores the value at selectedIndex, and   *)
(* the whole store, while pushing exactly two renders, one per call; the  *)
(* value in between is one more (one less) modulo 256.                    *)
C37_IncDecRoundTrip ==
    (pc = "undone" /\ Len(items) > 0) =>
        LET i == selectedItemIndex + 1
            before == saved[1].items[i].value
            between == saved[2].items[i].value
        IN  /\ items[i].value = before
            /\ items = saved[1].items
            /\ saved[1].name = "incrementValue" => between = (before + 1) % ValueMod
            /\ saved[1].name = "decrementValue" =>
                   between = (before + ValueMod - 1) % ValueMod
            /\ saved[2].pushes = 1 /\ renderCallCount = 1
            /\ saved[2].ret = "void" /\ ret = "void"
            /\ selectedItemIndex = saved[1].sel

(* C37 witness: incrementValue took 255 to 0 and decrementValue took it   *)
(* back to 255, on the second record                                      *)
C37_Witness ==
    /\ pc = "undone" /\ saved[1].name = "incrementValue" /\ op = "decrementValue"
    /\ selectedItemIndex = 1
    /\ saved[1].items[2].value = 255
    /\ saved[2].items[2].value = 0
    /\ items[2].value = 255
    /\ saved[2].pushes = 1 /\ renderCallCount = 1

(* C38: in the controller without scrolling, after any sequence of        *)
(* navigateUp/navigateDown calls navigatorRow < max(1, min(rows,          *)
(* length)): the cursor row is a valid record index when the store is     *)
(* non-empty and stays 0 when the store is empty.                         *)
C38_CursorRowValid ==
    navigatorRow < Max(1, Min(config.rows, Len(items)))

====
